---- MODULE Spec2Model ----
(***************************************************************************)
(* Model of the HtmlCheerio V1 node                                        *)
(* (packages/nodes-base/nodes/HtmlCheerio/V1/HtmlCheerioV1.node.ts):       *)
(* the recursive rule extractor resolveSelectFields, the text normaliser   *)
(* formatText and the batch driver HtmlCheerioV1.execute.                  *)
(*                                                                         *)
(* Strings that the code inspects character by character (node text,       *)
(* attribute values, error messages) are tuples of one-character or        *)
(* literal strings.  A JSON value of the output is a tagged record         *)
(*   [t |-> "str", v |-> tuple]      a string                              *)
(*   [t |-> "seq", v |-> tuple]      an array                              *)
(*   [t |-> "map", v |-> function]   an object, keyed by varName           *)
(*   [t |-> "attrs", v |-> function] the attribute object of an element    *)
(***************************************************************************)
EXTENDS Integers, Sequences, FiniteSets, TLC

VARIABLES items, continueOnFail, idx, pc, rules, htmlArray, hpos,
          returnData, outcome, lastCall

vars == <<items, continueOnFail, idx, pc, rules, htmlArray, hpos,
          returnData, outcome, lastCall>>

(***************************************************************************)
(* Bounds                                                                  *)
(***************************************************************************)
MaxItems == 2
MaxHtml == 2
MaxText == 4

(***************************************************************************)
(* JSON values                                                             *)
(***************************************************************************)
Str(s) == [t |-> "str", v |-> s]
Arr(xs) == [t |-> "seq", v |-> xs]
Map(f) == [t |-> "map", v |-> f]
AttrObj(f) == [t |-> "attrs", v |-> f]
EmptyMap == <<>>

\* SetKey keeping the value a key already has
SetKey_keepsFirst(m, k, x) ==
    [n \in (DOMAIN m) \cup {k} |-> IF n \in DOMAIN m THEN m[n] ELSE x]

SetKey(m, k, x) == [n \in (DOMAIN m) \cup {k} |-> IF n = k THEN x ELSE m[n]]

(***************************************************************************)
(* ISelectField: one extraction rule.  valueBy is absent, a string (the    *)
(* attribute name) or a nested rule array.                                 *)
(***************************************************************************)
ByNone == [kind |-> "none", name |-> "", rules |-> <<>>]
ByStr(n) == [kind |-> "str", name |-> n, rules |-> <<>>]
ByRules(rs) == [kind |-> "rules", name |-> "", rules |-> rs]

Rule(name, sel, vt, by, m) ==
    [varName |-> name, selector |-> sel, valueType |-> vt, valueBy |-> by, multi |-> m]

ValueTypes == {"object", "text", "attr"}

(***************************************************************************)
(* Parsed documents.  Node 0 is the root returned by $.root(); nodes 1..N  *)
(* are the elements, numbered in document order (pre-order).               *)
(***************************************************************************)
Root == 0

DocA ==
    [parent |-> <<0, 1, 1, 0, 0>>,
     tag    |-> <<"div", "span", "span", "span", "div">>,
     attrs  |-> << <<>>, [id |-> <<"x">>], <<>>, [id |-> <<"y">>], <<>> >>,
     text   |-> << <<>>, <<"a">>, <<" ", "b", "\n", " ", "c">>, <<"d">>, <<"e">> >>]

DocB ==
    [parent |-> <<0, 0, 2>>,
     tag    |-> <<"p", "div", "p">>,
     attrs  |-> << <<>>, <<>>, [id |-> <<>>] >>,
     text   |-> << <<" ", "h", "\n", " ", " ", "w", " ">>, <<>>, <<"k">> >>]

Htmls == {"A", "B"}

\* The markup <p>text</p>, for every text of up to MaxText characters and for
\* the text "  H\n   W  ", and the document it parses to.
Alphabet == {" ", "\n", "\t", "x"}

ExampleText == <<" ", " ", "H", "\n", " ", " ", " ", "W", " ", " ">>

\* a text with two separate runs of white space holding a line break
TwoBreaksText == <<"x", "\n", "\t", "x", " ", "\n", "x">>

Texts == UNION {[1..n -> Alphabet] : n \in 0..MaxText} \cup {ExampleText, TwoBreaksText}

RECURSIVE Join(_)
Join(s) == IF s = <<>> THEN "" ELSE Head(s) \o Join(Tail(s))

Markup(s) == "<p>" \o Join(s) \o "</p>"

TextHtmls == {Markup(s) : s \in Texts}

TextOfMarkup == [h \in TextHtmls |-> CHOOSE s \in Texts : Markup(s) = h]

Paragraph(s) == [parent |-> <<0>>, tag |-> <<"p">>, attrs |-> << <<>> >>, text |-> <<s>>]

load(html) ==
    IF html = "A" THEN DocA
    ELSE IF html = "B" THEN DocB
    ELSE Paragraph(TextOfMarkup[html])

Nodes(doc) == 1..Len(doc.parent)

RECURSIVE IsDescendant(_, _, _)
IsDescendant(doc, n, base) ==
    /\ n # Root
    /\ \/ doc.parent[n] = base
       \/ IsDescendant(doc, doc.parent[n], base)

\* find searching the whole document instead of the descendants of base
find_unscoped(doc, base, selector) ==
    SelectSeq([n \in Nodes(doc) |-> n], LAMBDA n: doc.tag[n] = selector)

find(doc, base, selector) ==
    SelectSeq([n \in Nodes(doc) |-> n],
              LAMBDA n: doc.tag[n] = selector /\ IsDescendant(doc, n, base))

RECURSIVE TextFrom(_, _, _)
TextFrom(doc, el, n) ==
    IF n > Len(doc.parent) THEN <<>>
    ELSE (IF n = el \/ IsDescendant(doc, n, el) THEN doc.text[n] ELSE <<>>)
         \o TextFrom(doc, el, n + 1)

text(doc, el) == TextFrom(doc, el, 1)

\* $(el).attr(name): the attribute's value, undefined when the element lacks
\* it, and the whole attribute object when name is undefined.  (A rule array
\* as name is not among the rules the model is run on.)
Undefined == [t |-> "undefined", v |-> <<>>]

attr(doc, el, by) ==
    IF by.kind = "none" THEN AttrObj(doc.attrs[el])
    ELSE IF by.name \in DOMAIN doc.attrs[el] THEN Str(doc.attrs[el][by.name])
    ELSE Undefined

\* OrEmpty without the || '' fallback
OrEmpty_keepsUndefined(x) == x

\* x || '' of JavaScript: undefined and the empty string are falsy.
OrEmpty(x) == IF x.t = "undefined" \/ (x.t = "str" /\ x.v = <<>>) THEN Str(<<>>) ELSE x

(***************************************************************************)
(* formatText                                                              *)
(***************************************************************************)
WhiteSpace == {" ", "\n", "\t"}

RECURSIVE TrimStart(_)
TrimStart(s) ==
    IF s # <<>> /\ Head(s) \in WhiteSpace THEN TrimStart(Tail(s)) ELSE s

RECURSIVE TrimEnd(_)
TrimEnd(s) ==
    IF s # <<>> /\ s[Len(s)] \in WhiteSpace THEN TrimEnd(SubSeq(s, 1, Len(s) - 1)) ELSE s

trim(s) == TrimEnd(TrimStart(s))

RECURSIVE RunEnd(_, _)
RunEnd(s, i) ==
    IF i <= Len(s) /\ s[i] \in WhiteSpace THEN RunEnd(s, i + 1) ELSE i

RECURSIVE ReplaceFrom(_, _)
ReplaceFrom(s, i) ==
    IF i > Len(s) THEN <<>>
    ELSE LET e == RunEnd(s, i)
         IN IF \E j \in i..(e - 1) : s[j] = "\n"
            THEN <<" ">> \o ReplaceFrom(s, e)
            ELSE <<s[i]>> \o ReplaceFrom(s, i + 1)

\* replace without the g flag: the first run holding a line break only
RECURSIVE ReplaceFirst(_, _)
ReplaceFirst(s, i) ==
    IF i > Len(s) THEN <<>>
    ELSE LET e == RunEnd(s, i)
         IN IF \E j \in i..(e - 1) : s[j] = "\n"
            THEN <<" ">> \o SubSeq(s, e, Len(s))
            ELSE <<s[i]>> \o ReplaceFirst(s, i + 1)

\* formatText replacing the first line break only
formatText_firstBreakOnly(s) == ReplaceFirst(trim(s), 1)

\* formatText without the trim
formatText_noTrim(s) == ReplaceFrom(s, 1)

formatText(s) == ReplaceFrom(trim(s), 1)

(***************************************************************************)
(* resolveSelectFields                                                     *)
(***************************************************************************)
Ok(x) == [ok |-> TRUE, val |-> x]
Raise(e) == [ok |-> FALSE, err |-> e]

NodeOperationError(msg) == [name |-> "NodeOperationError", message |-> msg]
TypeError(msg) == [name |-> "TypeError", message |-> msg]

\* InvalidValueType naming the valueType only
InvalidValueType_noName(field) ==
    NodeOperationError(<<": illegal valueType: ", field.valueType>>)

\* `${varName}: <illegal valueType>: ${valueType}` (the literal is Chinese in the source)
InvalidValueType(field) ==
    NodeOperationError(<<field.varName, ": illegal valueType: ", field.valueType>>)

\* An array element without the fields of a rule (a character of a string
\* valueBy, a JSON scalar): destructuring gives undefined everywhere.
NonRule == Rule("", "", "", ByNone, FALSE)

\* for (const field of fields): an array iterates its rules, a string its
\* characters, undefined is not iterable.
Iterate(by) ==
    CASE by.kind = "rules" -> Ok(by.rules)
      [] by.kind = "str" -> Ok(<<NonRule>>)
      [] OTHER -> Raise(TypeError(<<"fields is not iterable">>))

RECURSIVE resolveSelectFields(_, _, _)
RECURSIVE ResolveFrom(_, _, _, _, _)
RECURSIVE SubRecords(_, _, _, _)

\* SubRecords leaving out the elements whose nested rules throw
SubRecords_swallows(by, doc, els, acc) ==
    IF els = <<>> THEN Ok(acc)
    ELSE LET sub == resolveSelectFields(by, doc, Head(els))
         IN IF sub.ok THEN SubRecords(by, doc, Tail(els), Append(acc, Map(sub.val)))
            ELSE SubRecords(by, doc, Tail(els), acc)

\* lines 66-70: one nested record per element; the first throw ends the loop
SubRecords(by, doc, els, acc) ==
    IF els = <<>> THEN Ok(acc)
    ELSE LET sub == resolveSelectFields(by, doc, Head(els))
         IN IF sub.ok THEN SubRecords(by, doc, Tail(els), Append(acc, Map(sub.val)))
            ELSE sub

\* MultiValue pushing the values in reverse order
Reverse(seq) == [i \in 1..Len(seq) |-> seq[Len(seq) + 1 - i]]

MultiValue_reversed(field, doc, els) ==
    CASE field.valueType = "text" ->
            Ok(Arr(Reverse([i \in 1..Len(els) |-> Str(formatText(text(doc, els[i])))])))
      [] field.valueType = "attr" ->
            Ok(Arr(Reverse([i \in 1..Len(els) |-> OrEmpty(attr(doc, els[i], field.valueBy))])))
      [] field.valueType = "object" ->
            LET subs == SubRecords(field.valueBy, doc, els, <<>>)
            IN IF subs.ok THEN Ok(Arr(Reverse(subs.val))) ELSE subs
      [] OTHER -> Raise(InvalidValueType(field))

\* MultiValue pushing an attribute value only when it is not empty
MultiValue_dropsEmpty(field, doc, els) ==
    CASE field.valueType = "text" ->
            Ok(Arr([i \in 1..Len(els) |-> Str(formatText(text(doc, els[i])))]))
      [] field.valueType = "attr" ->
            Ok(Arr(SelectSeq([i \in 1..Len(els) |-> OrEmpty(attr(doc, els[i], field.valueBy))],
                             LAMBDA x : x.t # "str" \/ x.v # <<>>)))
      [] field.valueType = "object" ->
            LET subs == SubRecords(field.valueBy, doc, els, <<>>)
            IN IF subs.ok THEN Ok(Arr(subs.val)) ELSE subs
      [] OTHER -> Raise(InvalidValueType(field))

\* lines 54-74: the value of a multi rule over all matched elements;
\* els.forEach pushes one value per element, in the order of els
MultiValue(field, doc, els) ==
    CASE field.valueType = "text" ->
            Ok(Arr([i \in 1..Len(els) |-> Str(formatText(text(doc, els[i])))]))
      [] field.valueType = "attr" ->
            Ok(Arr([i \in 1..Len(els) |-> OrEmpty(attr(doc, els[i], field.valueBy))]))
      [] field.valueType = "object" ->
            LET subs == SubRecords(field.valueBy, doc, els, <<>>)
            IN IF subs.ok THEN Ok(Arr(subs.val)) ELSE subs
      [] OTHER -> Raise(InvalidValueType(field))

\* lines 81-94: the value of a non-multi rule for the first matched element
SingleValue(field, doc, el) ==
    CASE field.valueType = "text" -> Ok(Str(formatText(text(doc, el))))
      [] field.valueType = "attr" -> Ok(OrEmpty(attr(doc, el, field.valueBy)))
      [] field.valueType = "object" ->
            LET sub == resolveSelectFields(field.valueBy, doc, el)
            IN IF sub.ok THEN Ok(Map(sub.val)) ELSE sub
      [] OTHER -> Raise(InvalidValueType(field))

\* ResolveField binding '' where a non-multi rule has no match
ResolveField_bindsMiss(field, doc, base, result) ==
    IF field.selector = "" THEN Ok(result)
    ELSE LET target == find(doc, base, field.selector)
         IN IF field.multi
            THEN LET out == MultiValue(field, doc, target)
                 IN IF out.ok THEN Ok(SetKey(result, field.varName, out.val)) ELSE out
            ELSE IF target = <<>> THEN Ok(SetKey(result, field.varName, Str(<<>>)))
                 ELSE LET out == SingleValue(field, doc, Head(target))
                      IN IF out.ok THEN Ok(SetKey(result, field.varName, out.val)) ELSE out

\* ResolveField taking the last matched element of a non-multi rule
ResolveField_lastMatch(field, doc, base, result) ==
    IF field.selector = "" THEN Ok(result)
    ELSE LET target == find(doc, base, field.selector)
         IN IF field.multi
            THEN LET out == MultiValue(field, doc, target)
                 IN IF out.ok THEN Ok(SetKey(result, field.varName, out.val)) ELSE out
            ELSE IF target = <<>> THEN Ok(result)
                 ELSE LET out == SingleValue(field, doc, target[Len(target)])
                      IN IF out.ok THEN Ok(SetKey(result, field.varName, out.val)) ELSE out

\* ResolveField querying with an empty selector, which matches nothing
ResolveField_queriesEmpty(field, doc, base, result) ==
    LET target == find(doc, base, field.selector)
    IN IF field.multi
       THEN LET out == MultiValue(field, doc, target)
            IN IF out.ok THEN Ok(SetKey(result, field.varName, out.val)) ELSE out
       ELSE IF target = <<>> THEN Ok(result)
            ELSE LET out == SingleValue(field, doc, Head(target))
                 IN IF out.ok THEN Ok(SetKey(result, field.varName, out.val)) ELSE out

\* ResolveField checking valueType before it looks for a match
ResolveField_eagerType(field, doc, base, result) ==
    IF field.selector = "" THEN Ok(result)
    ELSE IF field.valueType \notin ValueTypes THEN Raise(InvalidValueType(field))
    ELSE LET target == find(doc, base, field.selector)
         IN IF field.multi
            THEN LET out == MultiValue(field, doc, target)
                 IN IF out.ok THEN Ok(SetKey(result, field.varName, out.val)) ELSE out
            ELSE IF target = <<>> THEN Ok(result)
                 ELSE LET out == SingleValue(field, doc, Head(target))
                      IN IF out.ok THEN Ok(SetKey(result, field.varName, out.val)) ELSE out

\* ResolveField skipping a multi rule that has no match
ResolveField_skipsEmpty(field, doc, base, result) ==
    IF field.selector = "" THEN Ok(result)
    ELSE LET target == find(doc, base, field.selector)
         IN IF target = <<>> THEN Ok(result)
            ELSE IF field.multi
            THEN LET out == MultiValue(field, doc, target)
                 IN IF out.ok THEN Ok(SetKey(result, field.varName, out.val)) ELSE out
            ELSE LET out == SingleValue(field, doc, Head(target))
                 IN IF out.ok THEN Ok(SetKey(result, field.varName, out.val)) ELSE out

\* lines 49-95: one turn of the loop over fields, result being the record built so far
ResolveField(field, doc, base, result) ==
    IF field.selector = "" THEN Ok(result)
    ELSE LET target == find(doc, base, field.selector)
         IN IF field.multi
            THEN LET out == MultiValue(field, doc, target)
                 IN IF out.ok THEN Ok(SetKey(result, field.varName, out.val)) ELSE out
            ELSE IF target = <<>> THEN Ok(result)
                 ELSE LET out == SingleValue(field, doc, Head(target))
                      IN IF out.ok THEN Ok(SetKey(result, field.varName, out.val)) ELSE out

\* lines 48-97: the loop over fields[k..]; a throw leaves the function
ResolveFrom(fields, k, doc, base, result) ==
    IF k > Len(fields) THEN Ok(result)
    ELSE LET step == ResolveField(fields[k], doc, base, result)
         IN IF step.ok THEN ResolveFrom(fields, k + 1, doc, base, step.val) ELSE step

\* fields is the valueBy of the enclosing rule (or the parsed rules payload)
resolveSelectFields(by, doc, base) ==
    LET fields == Iterate(by)
    IN IF fields.ok THEN ResolveFrom(fields.val, 1, doc, base, EmptyMap) ELSE fields

(***************************************************************************)
(* Inputs of execute: one item per input record.  An item carries the      *)
(* parameters evaluated for it (sourceType, rules) and the value found at  *)
(* dataPropertyName (json property or binary property).                    *)
(***************************************************************************)
dataPropertyName == "data"

\* the text of the rules parameter, by what JSON.parse makes of it
Unparsable == [kind |-> "unparsable", text |-> "{oops"]
JsonNull == [kind |-> "null", text |-> "null"]
JsonNumber == [kind |-> "scalar", text |-> "5"]
JsonObject(rule) == [kind |-> "object", text |-> "{..}", object |-> rule]
JsonArray(rs) == [kind |-> "array", text |-> "[..]", array |-> rs]

NoValue == [kind |-> "undefined"]
OneHtml(h) == [kind |-> "string", string |-> h]
ManyHtml(hs) == [kind |-> "array", array |-> hs]

Item(st, value, payload) == [sourceType |-> st, value |-> value, rules |-> payload]

\* ParseRules taking everything that is not an array for the empty list
ParseRules_dropsObject(payload) ==
    CASE payload.kind = "unparsable" ->
            Raise(NodeOperationError(
                <<"Rules are invalid. Expected an array or an object, got ", payload.text>>))
      [] payload.kind = "array" -> Ok(payload.array)
      [] OTHER -> Ok(<<>>)

\* lines 183-194: JSON.parse(rulesParams) || [], wrapped when not an array
ParseRules(payload) ==
    CASE payload.kind = "unparsable" ->
            Raise(NodeOperationError(
                <<"Rules are invalid. Expected an array or an object, got ", payload.text>>))
      [] payload.kind = "null" -> Ok(<<>>)
      [] payload.kind = "scalar" -> Ok(<<NonRule>>)
      [] payload.kind = "object" -> Ok(<<payload.object>>)
      [] OTHER -> Ok(payload.array)

\* Source taking a missing json property for an empty array
Source_missingIsEmpty(item) ==
    IF item.value.kind = "undefined"
    THEN IF item.sourceType = "json"
         THEN Ok(<<>>)
         ELSE Raise(NodeOperationError(<<"no binary data property ", dataPropertyName>>))
    ELSE IF item.value.kind = "array" THEN Ok(item.value.array)
    ELSE Ok(<<item.value.string>>)

\* Source keeping only the first string of an array
Source_firstOnly(item) ==
    IF item.value.kind = "undefined"
    THEN IF item.sourceType = "json"
         THEN Raise(NodeOperationError(
                  <<"No property named \"", dataPropertyName, "\" exists!">>))
         ELSE Raise(NodeOperationError(<<"no binary data property ", dataPropertyName>>))
    ELSE IF item.value.kind = "array"
         THEN Ok(SubSeq(item.value.array, 1, IF item.value.array = <<>> THEN 0 ELSE 1))
    ELSE Ok(<<item.value.string>>)

\* lines 198-218: the HTML strings of the item, always as an array
Source(item) ==
    IF item.value.kind = "undefined"
    THEN IF item.sourceType = "json"
         THEN Raise(NodeOperationError(
                  <<"No property named \"", dataPropertyName, "\" exists!">>))
         ELSE Raise(NodeOperationError(<<"no binary data property ", dataPropertyName>>))
    ELSE IF item.value.kind = "array" THEN Ok(item.value.array)
    ELSE Ok(<<item.value.string>>)

(***************************************************************************)
(* HtmlCheerioV1.execute                                                   *)
(***************************************************************************)
NoCall == [fields |-> <<>>, html |-> "", out |-> Ok(EmptyMap), made |-> FALSE]
Call(fields, html, out) == [fields |-> fields, html |-> html, out |-> out, made |-> TRUE]

Pending == [kind |-> "pending"]
Returned(data) == [kind |-> "returned", data |-> data]
Thrown(e) == [kind |-> "thrown", err |-> e]

\* Record pairing every record with the first item
Record_firstItem(json, i) == [json |-> json, pairedItem |-> [item |-> 0]]

Record(json, i) == [json |-> json, pairedItem |-> [item |-> i]]
Placeholder(e, i) == Record(Map([error |-> Str(e.message)]), i)

\* Catch pushing the placeholder whatever continueOnFail says
Catch_alwaysContinues(execError) ==
    /\ rules' = <<>>
    /\ htmlArray' = <<>>
    /\ hpos' = 1
    /\ returnData' = Append(returnData, Placeholder(execError, idx))
    /\ idx' = idx + 1
    /\ pc' = "loop"
    /\ UNCHANGED outcome

\* lines 229-243: the catch block of the item's try
Catch(execError) ==
    /\ rules' = <<>>
    /\ htmlArray' = <<>>
    /\ hpos' = 1
    /\ IF continueOnFail
       THEN /\ returnData' = Append(returnData, Placeholder(execError, idx))
            /\ idx' = idx + 1
            /\ pc' = "loop"
            /\ UNCHANGED outcome
       ELSE /\ outcome' = Thrown(execError)
            /\ pc' = "thrown"
            /\ UNCHANGED <<returnData, idx>>

\* LoadItem reading the rules parameter of the first item for every item
LoadItem_firstRules ==
    /\ pc = "loop"
    /\ idx < Len(items)
    /\ LET item == items[idx + 1]
           parsed == ParseRules(items[1].rules)
           src == Source(item)
       IN /\ lastCall' = NoCall
          /\ IF ~parsed.ok THEN Catch(parsed.err)
             ELSE IF ~src.ok THEN Catch(src.err)
             ELSE /\ rules' = parsed.val
                  /\ htmlArray' = src.val
                  /\ hpos' = 1
                  /\ pc' = "html"
                  /\ UNCHANGED <<idx, returnData, outcome>>
    /\ UNCHANGED <<items, continueOnFail>>

\* lines 176-218: the parameters, the rules and the HTML strings of items[idx]
LoadItem ==
    /\ pc = "loop"
    /\ idx < Len(items)
    /\ LET item == items[idx + 1]
           parsed == ParseRules(item.rules)
           src == Source(item)
       IN /\ lastCall' = NoCall
          /\ IF ~parsed.ok THEN Catch(parsed.err)
             ELSE IF ~src.ok THEN Catch(src.err)
             ELSE /\ rules' = parsed.val
                  /\ htmlArray' = src.val
                  /\ hpos' = 1
                  /\ pc' = "html"
                  /\ UNCHANGED <<idx, returnData, outcome>>
    /\ UNCHANGED <<items, continueOnFail>>

\* ExtractHtml with the try/catch around one HTML string instead of the item
ExtractHtml_perString ==
    /\ pc = "html"
    /\ hpos <= Len(htmlArray)
    /\ LET html == htmlArray[hpos]
           out == resolveSelectFields(ByRules(rules), load(html), Root)
       IN /\ lastCall' = Call(rules, html, out)
          /\ IF out.ok
             THEN /\ returnData' = Append(returnData, Record(Map(out.val), idx))
                  /\ hpos' = hpos + 1
                  /\ UNCHANGED <<idx, pc, rules, htmlArray, outcome>>
             ELSE IF continueOnFail
             THEN /\ returnData' = Append(returnData, Placeholder(out.err, idx))
                  /\ hpos' = hpos + 1
                  /\ UNCHANGED <<idx, pc, rules, htmlArray, outcome>>
             ELSE Catch(out.err)
    /\ UNCHANGED <<items, continueOnFail>>

\* lines 220-228: one turn of the loop over htmlArray
ExtractHtml ==
    /\ pc = "html"
    /\ hpos <= Len(htmlArray)
    /\ LET html == htmlArray[hpos]
           out == resolveSelectFields(ByRules(rules), load(html), Root)
       IN /\ lastCall' = Call(rules, html, out)
          /\ IF out.ok
             THEN /\ returnData' = Append(returnData, Record(Map(out.val), idx))
                  /\ hpos' = hpos + 1
                  /\ UNCHANGED <<idx, pc, rules, htmlArray, outcome>>
             ELSE Catch(out.err)
    /\ UNCHANGED <<items, continueOnFail>>

\* the loop over htmlArray is exhausted: idx++
NextItem ==
    /\ pc = "html"
    /\ hpos > Len(htmlArray)
    /\ idx' = idx + 1
    /\ pc' = "loop"
    /\ rules' = <<>>
    /\ htmlArray' = <<>>
    /\ hpos' = 1
    /\ UNCHANGED <<items, continueOnFail, returnData, outcome, lastCall>>

\* line 246: return [returnData]
Return ==
    /\ pc = "loop"
    /\ idx = Len(items)
    /\ outcome' = Returned(<<returnData>>)
    /\ pc' = "done"
    /\ UNCHANGED <<items, continueOnFail, idx, rules, htmlArray, hpos, returnData, lastCall>>

Next == LoadItem \/ ExtractHtml \/ NextItem \/ Return

(***************************************************************************)
(* Rule lists and batches the model is run on                              *)
(***************************************************************************)
TextOf(name, sel, m) == Rule(name, sel, "text", ByNone, m)
AttrOf(name, sel, a, m) == Rule(name, sel, "attr", ByStr(a), m)
ObjectOf(name, sel, rs, m) == Rule(name, sel, "object", ByRules(rs), m)
Bogus(name, sel, m) == Rule(name, sel, "bogus", ByNone, m)

ListPlain == <<TextOf("a", "span", TRUE), AttrOf("b", "span", "id", FALSE),
               TextOf("c", "p", FALSE)>>
ListAttr == <<AttrOf("a", "span", "id", TRUE), TextOf("b", "div", FALSE),
              AttrOf("c", "p", "id", TRUE)>>
ListNested == <<ObjectOf("a", "div", <<TextOf("a", "span", TRUE), TextOf("b", "span", FALSE),
                                       AttrOf("c", "p", "id", TRUE)>>, TRUE),
                ObjectOf("b", "div", <<AttrOf("c", "span", "id", TRUE),
                                       TextOf("a", "p", FALSE)>>, FALSE),
                ObjectOf("c", "p", <<TextOf("a", "p", TRUE)>>, FALSE),
                AttrOf("d", "span", "id", TRUE)>>
ListBogusSingle == <<TextOf("a", "div", FALSE), Bogus("b", "span", FALSE)>>
ListBogusMulti == <<TextOf("a", "p", TRUE), Bogus("b", "span", TRUE)>>
ListBogusNested == <<TextOf("a", "div", TRUE),
                     ObjectOf("c", "div", <<TextOf("a", "span", FALSE),
                                            Bogus("b", "span", FALSE)>>, TRUE)>>
ListBogusDeep == <<ObjectOf("c", "div", <<ObjectOf("a", "p", <<Bogus("b", "p", TRUE)>>, FALSE)>>,
                            FALSE)>>
ListNoSelector == <<Bogus("a", "", TRUE), TextOf("b", "span", FALSE),
                    ObjectOf("c", "", <<>>, FALSE)>>
ListTwoBogus == <<Bogus("a", "p", FALSE), TextOf("c", "div", TRUE), Bogus("b", "span", FALSE)>>
ListSameName == <<TextOf("a", "span", FALSE), AttrOf("a", "span", "id", TRUE),
                  TextOf("b", "p", TRUE), TextOf("b", "p", FALSE)>>

ListTextWithRules == <<Rule("a", "span", "text", ByRules(<<TextOf("b", "span", FALSE)>>), FALSE)>>
ListObjectWithName == <<Rule("a", "div", "object", ByStr("id"), TRUE), TextOf("b", "div", FALSE)>>
ListObjectWithoutRules == <<TextOf("b", "div", FALSE), Rule("a", "p", "object", ByNone, FALSE)>>
ListAttrWithoutName == <<Rule("a", "span", "attr", ByNone, FALSE),
                         Rule("b", "div", "attr", ByNone, TRUE)>>

ListNoSelectorNested ==
    <<ObjectOf("a", "div", <<Rule("b", "", "object", ByNone, TRUE),
                             Rule("d", "", "attr", ByRules(<<>>), FALSE),
                             TextOf("c", "span", TRUE)>>, TRUE)>>

ListLazy == <<Bogus("a", "", TRUE), Bogus("b", "p", FALSE),
              ObjectOf("c", "p", <<Bogus("a", "span", TRUE)>>, TRUE),
              TextOf("d", "span", TRUE)>>

ListSiblings == <<TextOf("a", "span", TRUE), AttrOf("b", "span", "id", TRUE),
                  ObjectOf("c", "span", <<TextOf("a", "p", FALSE)>>, TRUE),
                  ObjectOf("d", "div", <<TextOf("a", "span", TRUE),
                                         AttrOf("b", "span", "id", TRUE)>>, TRUE)>>

ExtractPayloads ==
    {JsonArray(l) : l \in {ListPlain, ListAttr, ListNested, ListBogusSingle, ListBogusMulti,
                           ListBogusNested, ListBogusDeep, ListTwoBogus, ListNoSelector,
                           ListSameName, ListTextWithRules, ListObjectWithName,
                           ListObjectWithoutRules, ListAttrWithoutName,
                           ListNoSelectorNested, ListLazy, ListSiblings}}
        \cup {JsonObject(Bogus("b", "p", FALSE)), JsonNull, JsonNumber}

DriverPayloads ==
    {Unparsable, JsonObject(Bogus("b", "span", FALSE)), JsonArray(ListPlain)}

HtmlArrays == UNION {[1..n -> Htmls] : n \in 0..MaxHtml}

JsonItems(payloads) ==
    {Item("json", v, p) :
        v \in {NoValue} \cup {OneHtml(h) : h \in Htmls} \cup {ManyHtml(hs) : hs \in HtmlArrays},
        p \in payloads}

BinaryItems(payloads) ==
    {Item("binary", v, p) : v \in {NoValue} \cup {OneHtml(h) : h \in Htmls}, p \in payloads}

Start(batch, cof) ==
    /\ items = batch
    /\ continueOnFail = cof
    /\ idx = 0
    /\ pc = "loop"
    /\ rules = <<>>
    /\ htmlArray = <<>>
    /\ hpos = 1
    /\ returnData = <<>>
    /\ outcome = Pending
    /\ lastCall = NoCall

\* the arrays of HTML strings of the batches: none, a failing string first,
\* a failing string between two others (for the rule of DriverPayloads that
\* fails on document A)
DriverArrays == {<<>>, <<"A", "B">>, <<"B", "A", "B">>}

DriverItems ==
    {Item("json", v, p) :
        v \in {NoValue} \cup {OneHtml(h) : h \in Htmls} \cup {ManyHtml(hs) : hs \in DriverArrays},
        p \in DriverPayloads}
    \cup {Item("binary", v, JsonArray(ListPlain)) : v \in {NoValue, OneHtml("A")}}

\* a batch of up to MaxItems items
Init ==
    \E n \in 0..MaxItems :
        \E batch \in [1..n -> DriverItems] :
            \E cof \in BOOLEAN : Start(batch, cof)

\* one item, every rule list
InitExtract ==
    \E item \in JsonItems(ExtractPayloads) \cup BinaryItems(ExtractPayloads) :
        \E cof \in BOOLEAN : Start(<<item>>, cof)

\* one item holding one paragraph, every text
InitText ==
    \E h \in TextHtmls : \E m \in BOOLEAN : \E cof \in BOOLEAN :
        Start(<<Item("json", OneHtml(h), JsonArray(<<TextOf("a", "p", m)>>))>>, cof)

\* the rules given once as a single object and once as a one-element array
PairRules ==
    {TextOf("a", "span", TRUE), AttrOf("b", "span", "id", FALSE),
     ObjectOf("c", "div", <<TextOf("a", "span", FALSE)>>, TRUE),
     Bogus("b", "span", FALSE), Bogus("b", "p", FALSE), Rule("a", "", "text", ByNone, FALSE)}

\* two items with the same source, the rule as an object in one and as a
\* one-element array in the other
InitPair ==
    \E r \in PairRules : \E one \in JsonItems({JsonObject(r)}) \cup BinaryItems({JsonObject(r)}) :
        \E cof \in BOOLEAN :
            LET other == Item(one.sourceType, one.value, JsonArray(<<r>>))
            IN Start(<<one, other>>, cof) \/ Start(<<other, one>>, cof)

Spec == Init /\ [][Next]_vars

SpecExtract == InitExtract /\ [][Next]_vars

SpecText == InitText /\ [][Next]_vars

SpecPair == InitPair /\ [][Next]_vars

(***************************************************************************)
(* Reference notions used by the properties                                *)
(***************************************************************************)
RECURSIVE Ancestors(_, _)
Ancestors(doc, n) ==
    IF n = Root THEN {} ELSE {doc.parent[n]} \cup Ancestors(doc, doc.parent[n])

\* the elements below base with the selected tag, in document order
Matches(doc, base, selector) ==
    SelectSeq([n \in 1..Len(doc.tag) |-> n],
              LAMBDA n: doc.tag[n] = selector /\ base \in Ancestors(doc, n))

Writes(field, doc, base) ==
    field.selector # "" /\ (field.multi \/ Matches(doc, base, field.selector) # <<>>)

LastWriter(fields, k, doc, base) ==
    \A j \in (k + 1)..Len(fields) :
        ~(fields[j].varName = fields[k].varName /\ Writes(fields[j], doc, base))

OnlyWriter(fields, k, doc, base) ==
    \A j \in (1..Len(fields)) \ {k} :
        ~(fields[j].varName = fields[k].varName /\ Writes(fields[j], doc, base))

Remove(seq, k) == SubSeq(seq, 1, k - 1) \o SubSeq(seq, k + 1, Len(seq))

Frame(fields, html, base, m) == [fields |-> fields, html |-> html, base |-> base, m |-> m]

\* every (rule list, context node, mapping) of a returned record: the record
\* itself and, below each object rule, the nested mappings with their nodes
RECURSIVE Frames(_, _, _, _)
Frames(fields, html, base, m) ==
    LET doc == load(html)
        Below(k) ==
            LET f == fields[k]
                ms == Matches(doc, base, f.selector)
            IN IF /\ f.selector # ""
                  /\ f.valueType = "object"
                  /\ f.valueBy.kind = "rules"
                  /\ LastWriter(fields, k, doc, base)
                  /\ f.varName \in DOMAIN m
               THEN IF f.multi
                    THEN IF m[f.varName].t = "seq" /\ Len(m[f.varName].v) = Len(ms)
                         THEN UNION {IF m[f.varName].v[i].t = "map"
                                     THEN Frames(f.valueBy.rules, html, ms[i], m[f.varName].v[i].v)
                                     ELSE {} : i \in 1..Len(ms)}
                         ELSE {}
                    ELSE IF ms # <<>> /\ m[f.varName].t = "map"
                         THEN Frames(f.valueBy.rules, html, ms[1], m[f.varName].v)
                         ELSE {}
               ELSE {}
    IN {Frame(fields, html, base, m)} \cup UNION {Below(k) : k \in 1..Len(fields)}

CallFrames ==
    IF lastCall.made /\ lastCall.out.ok
    THEN Frames(lastCall.fields, lastCall.html, Root, lastCall.out.val)
    ELSE {}

Unmatched(field, doc, base) ==
    field.selector # "" /\ ~field.multi /\ Matches(doc, base, field.selector) = <<>>

EmptyMulti(field, doc, base) ==
    field.selector # "" /\ field.multi /\ Matches(doc, base, field.selector) = <<>>

\* the rules with an unknown valueType whose value computation the walk over
\* fields comes to, in the order of the walk (rule by rule, and below an
\* object rule node by node)
RECURSIVE ReachedInvalid(_, _, _)
RECURSIVE ReachedOver(_, _, _)
ReachedBy(f, doc, base) ==
    LET ms == Matches(doc, base, f.selector)
        used == IF f.multi \/ ms = <<>> THEN ms ELSE <<ms[1]>>
    IN IF f.selector = "" THEN <<>>
       ELSE IF f.valueType \notin ValueTypes
            THEN IF f.multi \/ ms # <<>> THEN <<f>> ELSE <<>>
       ELSE IF f.valueType = "object" /\ f.valueBy.kind = "rules"
            THEN ReachedOver(f.valueBy.rules, doc, used)
       ELSE <<>>

ReachedOver(fields, doc, nodes) ==
    IF nodes = <<>> THEN <<>>
    ELSE ReachedInvalid(fields, doc, Head(nodes)) \o ReachedOver(fields, doc, Tail(nodes))

ReachedInvalid(fields, doc, base) ==
    IF fields = <<>> THEN <<>>
    ELSE ReachedBy(Head(fields), doc, base) \o ReachedInvalid(Tail(fields), doc, base)

CallReached ==
    IF lastCall.made THEN ReachedInvalid(lastCall.fields, load(lastCall.html), Root) ELSE <<>>

\* every rule of a rule tree
RECURSIVE AllRules(_)
AllRules(fields) ==
    IF fields = <<>> THEN {}
    ELSE {Head(fields)} \cup AllRules(Head(fields).valueBy.rules) \cup AllRules(Tail(fields))

TopRules(fields) == {fields[k] : k \in 1..Len(fields)}

\* the input of an item, read off the item itself
Strings(item) ==
    IF item.value.kind = "array" THEN item.value.array
    ELSE IF item.value.kind = "string" THEN <<item.value.string>>
    ELSE <<>>

Extracted(item, j) ==
    resolveSelectFields(ByRules(ParseRules(item.rules).val), load(Strings(item)[j]), Root)

FailsEarly(item) == ~ParseRules(item.rules).ok \/ item.value.kind = "undefined"

FailingStrings(item) ==
    IF FailsEarly(item) THEN {} ELSE {j \in 1..Len(Strings(item)) : ~Extracted(item, j).ok}

Fails(item) == FailsEarly(item) \/ FailingStrings(item) # {}

Min(S) == CHOOSE x \in S : \A y \in S : x <= y

\* the first error met when the item is processed alone
ItemError(item) ==
    IF ~ParseRules(item.rules).ok THEN ParseRules(item.rules).err
    ELSE IF item.value.kind = "undefined" THEN Source(item).err
    ELSE Extracted(item, Min(FailingStrings(item))).err

FailingItems == {i \in 1..Len(items) : Fails(items[i])}

Last(seq) == seq[Len(seq)]

IsPrefix(s, u) == Len(s) <= Len(u) /\ s = SubSeq(u, 1, Len(s))

\* a rule of a known valueType whose valueBy has the shape of that valueType
WellFormed(f) ==
    \/ f.valueType = "text"
    \/ f.valueType = "attr" /\ f.valueBy.kind = "str"
    \/ f.valueType = "object" /\ f.valueBy.kind = "rules"

\* the value of rule f for the single node n
NodeValue(f, doc, n) ==
    CASE f.valueType = "text" -> Str(formatText(text(doc, n)))
      [] f.valueType = "attr" ->
            IF f.valueBy.name \in DOMAIN doc.attrs[n]
            THEN Str(doc.attrs[n][f.valueBy.name])
            ELSE Str(<<>>)
      [] OTHER -> Map(resolveSelectFields(f.valueBy, doc, n).val)

\* the elements with the selected tag that are not below base
Outside(doc, base, selector) ==
    {n \in 1..Len(doc.tag) : doc.tag[n] = selector /\ base \notin Ancestors(doc, n)}

(***************************************************************************)
(* Properties                                                              *)
(***************************************************************************)

\* C1: a rule with a non-empty selector and multi false whose selector matches
\* no descendant of the context node writes no key and raises no error: in
\* every returned mapping, at every depth, its varName is absent (unless a
\* sibling rule of the same name writes it), and the outcome of the call is
\* the outcome of the call without that rule.
C1_UnmatchedSingleOmitted ==
    /\ \A fr \in CallFrames : \A k \in 1..Len(fr.fields) :
          Unmatched(fr.fields[k], load(fr.html), fr.base) =>
            /\ OnlyWriter(fr.fields, k, load(fr.html), fr.base) =>
                  fr.fields[k].varName \notin DOMAIN fr.m
            /\ resolveSelectFields(ByRules(Remove(fr.fields, k)), load(fr.html), fr.base)
                  = Ok(fr.m)
    /\ lastCall.made =>
          \A k \in 1..Len(lastCall.fields) :
              Unmatched(lastCall.fields[k], load(lastCall.html), Root) =>
                  resolveSelectFields(ByRules(Remove(lastCall.fields, k)),
                                      load(lastCall.html), Root) = lastCall.out

\* a returned nested mapping that holds other keys and omits the key of an
\* unmatched non-multi rule
C1_Witness ==
    \E fr \in CallFrames : \E k \in 1..Len(fr.fields) :
        /\ fr.base # Root
        /\ fr.m # EmptyMap
        /\ Unmatched(fr.fields[k], load(fr.html), fr.base)
        /\ OnlyWriter(fr.fields, k, load(fr.html), fr.base)

\* C2: a rule with a non-empty selector and multi = true whose selector matches
\* no descendant of the context node binds its varName to an empty sequence in
\* the returned mapping (the last rule of a name being the one that binds it).
C2_EmptyMultiBound ==
    \A fr \in CallFrames : \A k \in 1..Len(fr.fields) :
        (EmptyMulti(fr.fields[k], load(fr.html), fr.base)
            /\ LastWriter(fr.fields, k, load(fr.html), fr.base)) =>
          /\ fr.fields[k].varName \in DOMAIN fr.m
          /\ fr.m[fr.fields[k].varName] = Arr(<<>>)

C2_Witness ==
    \E fr \in CallFrames : \E k \in 1..Len(fr.fields) :
        /\ EmptyMulti(fr.fields[k], load(fr.html), fr.base)
        /\ LastWriter(fr.fields, k, load(fr.html), fr.base)
        /\ \E j \in 1..Len(fr.fields) : fr.fields[j].varName # fr.fields[k].varName
                                          /\ fr.fields[j].varName \in DOMAIN fr.m

\* C3 as stated: evaluating a rule list that contains a rule whose valueType is
\* none of 'text', 'attr', 'object' raises the invalid-rule error whose message
\* carries that rule's varName and valueType.
C3_AnyInvalidRuleRaises ==
    lastCall.made =>
        \A r \in AllRules(lastCall.fields) :
            r.valueType \notin ValueTypes =>
                /\ ~lastCall.out.ok
                /\ lastCall.out.err.name = "NodeOperationError"
                /\ Head(lastCall.out.err.message) = r.varName
                /\ Last(lastCall.out.err.message) = r.valueType

\* C3 amended: when the walk comes to the value computation of a rule whose
\* valueType is none of 'text', 'attr', 'object' (non-empty selector, and
\* multi or at least one match, in a context that is evaluated), the call
\* raises the invalid-rule error, and its message carries the varName and the
\* valueType of the first such rule of the walk.
C3_ReachedInvalidRuleRaises ==
    CallReached # <<>> =>
        /\ ~lastCall.out.ok
        /\ lastCall.out.err.name = "NodeOperationError"
        /\ Head(lastCall.out.err.message) = Head(CallReached).varName
        /\ Last(lastCall.out.err.message) = Head(CallReached).valueType

\* a call that skipped an unmatched invalid rule and raised for a later one
C3_Witness ==
    /\ CallReached # <<>>
    /\ \E r \in TopRules(lastCall.fields) :
          /\ r.valueType \notin ValueTypes
          /\ r.selector # ""
          /\ r.varName # Head(CallReached).varName

\* C4 as stated: in continue-on-fail mode every HTML string of every item whose
\* rules and source are readable gives one output record at its own position,
\* a normal record or, for a failing string, an { error } placeholder.
RECURSIVE AlignedFrom(_)
AlignedFrom(i) ==
    IF i > Len(items) THEN <<>>
    ELSE (IF FailsEarly(items[i]) THEN <<Placeholder(ItemError(items[i]), i - 1)>>
          ELSE [j \in 1..Len(Strings(items[i])) |->
                   IF Extracted(items[i], j).ok
                   THEN Record(Map(Extracted(items[i], j).val), i - 1)
                   ELSE Placeholder(Extracted(items[i], j).err, i - 1)])
         \o AlignedFrom(i + 1)

C4_AlignedPlaceholders ==
    (continueOnFail /\ pc = "done") => outcome = Returned(<<AlignedFrom(1)>>)

\* C5: when continueOnFail is false the first failure of the batch makes
\* execute throw that error: execute never returns, the loop never goes past
\* the first failing item, and what is thrown is that item's first error, with
\* no output record.
C5_FirstFailureThrows ==
    ~continueOnFail =>
        /\ pc = "thrown" => FailingItems # {}
        /\ FailingItems # {} =>
              /\ idx < Min(FailingItems)
              /\ (pc = "html" /\ idx = Min(FailingItems) - 1) =>
                    hpos <= Min(FailingStrings(items[Min(FailingItems)]))
              /\ pc # "done"
              /\ outcome.kind # "returned"
              /\ pc = "thrown" =>
                    /\ idx = Min(FailingItems) - 1
                    /\ outcome = Thrown(ItemError(items[Min(FailingItems)]))

\* execute has thrown although records were built and items were left
C5_Witness ==
    /\ pc = "thrown"
    /\ returnData # <<>>
    /\ idx + 1 < Len(items)

\* C6: when no failure occurs, execute returns exactly one record per HTML
\* string of every item, by item index and then by position in the item's
\* array, a single string counting as a one-element array, each record being
\* the extraction of its own string with the item's rules.
RECURSIVE ExpectedFrom(_)
ExpectedFrom(i) ==
    IF i > Len(items) THEN <<>>
    ELSE [j \in 1..Len(Strings(items[i])) |->
             Record(Map(Extracted(items[i], j).val), i - 1)]
         \o ExpectedFrom(i + 1)

C6_OneRecordPerString ==
    FailingItems = {} =>
        /\ IsPrefix(returnData, ExpectedFrom(1))
        /\ pc # "thrown"
        /\ pc = "done" => outcome = Returned(<<ExpectedFrom(1)>>)

\* a returned batch holding a single string and an array of different strings
C6_Witness ==
    /\ pc = "done"
    /\ FailingItems = {}
    /\ \E i \in 1..Len(items) : items[i].value.kind = "string"
    /\ \E i \in 1..Len(items) :
          /\ items[i].value.kind = "array"
          /\ Len(items[i].value.array) >= 2
          /\ items[i].value.array[1] # items[i].value.array[2]
    /\ Len(outcome.data[1]) >= 3

\* C7: when the walk comes to a rule with an unknown valueType, at the top
\* level or below object rules, the call raises and returns no mapping at all;
\* the document gets no normal record: its item ends with the { error }
\* placeholder alone, or execute throws.
C7_InvalidRuleAbortsDocument ==
    CallReached # <<>> =>
        /\ ~lastCall.out.ok
        /\ "val" \notin DOMAIN lastCall.out
        /\ IF continueOnFail
           THEN /\ returnData # <<>>
                /\ Last(returnData).json = Map([error |-> Str(lastCall.out.err.message)])
                /\ pc \in {"loop", "done"}
           ELSE /\ pc = "thrown"
                /\ outcome = Thrown(lastCall.out.err)

\* the invalid rule sits below an object rule and an earlier rule of the top
\* level had already produced a value
C7_Witness ==
    /\ CallReached # <<>>
    /\ Head(CallReached) \notin TopRules(lastCall.fields)
    /\ Writes(Head(lastCall.fields), load(lastCall.html), Root)
    /\ Head(lastCall.fields).valueType \in {"text", "attr"}
    /\ continueOnFail

\* C8: below an object rule the nested rules see the descendants of the
\* matched node only.  In every nested mapping, a rule whose selector also
\* matches elements outside the matched node is answered from the matches
\* below the matched node alone: a multi rule gives one value per such match,
\* a non-multi rule the value of the first such match, or no key without one.
C8_NestedRulesScoped ==
    \A fr \in CallFrames : \A k \in 1..Len(fr.fields) :
        LET f == fr.fields[k]
            doc == load(fr.html)
            ms == Matches(doc, fr.base, f.selector)
        IN (/\ fr.base # Root
            /\ f.selector # ""
            /\ WellFormed(f)
            /\ Outside(doc, fr.base, f.selector) # {}
            /\ LastWriter(fr.fields, k, doc, fr.base)) =>
              IF f.multi
              THEN /\ f.varName \in DOMAIN fr.m
                   /\ fr.m[f.varName] = Arr([i \in 1..Len(ms) |-> NodeValue(f, doc, ms[i])])
              ELSE IF ms = <<>>
                   THEN OnlyWriter(fr.fields, k, doc, fr.base) => f.varName \notin DOMAIN fr.m
                   ELSE /\ f.varName \in DOMAIN fr.m
                        /\ fr.m[f.varName] = NodeValue(f, doc, ms[1])

\* a nested mapping whose multi rule has matches below and outside the matched
\* node, and one whose non-multi rule has matches outside only
C8_Witness ==
    /\ \E fr \in CallFrames : \E k \in 1..Len(fr.fields) :
          /\ fr.base # Root
          /\ fr.fields[k].multi
          /\ LastWriter(fr.fields, k, load(fr.html), fr.base)
          /\ Matches(load(fr.html), fr.base, fr.fields[k].selector) # <<>>
          /\ Outside(load(fr.html), fr.base, fr.fields[k].selector) # {}
    /\ \E fr \in CallFrames : \E k \in 1..Len(fr.fields) :
          /\ fr.base # Root
          /\ Unmatched(fr.fields[k], load(fr.html), fr.base)
          /\ Outside(load(fr.html), fr.base, fr.fields[k].selector) # {}

\* C9: for a multi rule of any valueType the i-th element of the sequence is
\* the value of the i-th matched node in document order, one element per
\* matched node.
C9_MultiInDocumentOrder ==
    \A fr \in CallFrames : \A k \in 1..Len(fr.fields) :
        LET f == fr.fields[k]
            doc == load(fr.html)
            ms == Matches(doc, fr.base, f.selector)
        IN (/\ f.selector # ""
            /\ f.multi
            /\ WellFormed(f)
            /\ LastWriter(fr.fields, k, doc, fr.base)) =>
              /\ f.varName \in DOMAIN fr.m
              /\ fr.m[f.varName].t = "seq"
              /\ Len(fr.m[f.varName].v) = Len(ms)
              /\ \A i \in 1..Len(ms) : fr.m[f.varName].v[i] = NodeValue(f, doc, ms[i])

\* three matched nodes with different values, and an object rule over two
C9_Witness ==
    /\ \E fr \in CallFrames : \E k \in 1..Len(fr.fields) :
          LET f == fr.fields[k]
              ms == Matches(load(fr.html), fr.base, f.selector)
          IN /\ f.multi /\ f.selector # "" /\ f.valueType \in {"text", "attr"}
             /\ LastWriter(fr.fields, k, load(fr.html), fr.base)
             /\ Len(ms) = 3
             /\ NodeValue(f, load(fr.html), ms[1]) # NodeValue(f, load(fr.html), ms[2])
             /\ NodeValue(f, load(fr.html), ms[2]) # NodeValue(f, load(fr.html), ms[3])
             /\ NodeValue(f, load(fr.html), ms[1]) # NodeValue(f, load(fr.html), ms[3])
    /\ \E fr \in CallFrames : \E k \in 1..Len(fr.fields) :
          LET f == fr.fields[k]
              ms == Matches(load(fr.html), fr.base, f.selector)
          IN /\ f.multi /\ f.selector # "" /\ f.valueType = "object"
             /\ Len(ms) >= 2
             /\ NodeValue(f, load(fr.html), ms[1]) # NodeValue(f, load(fr.html), ms[2])

\* C10: for a non-multi rule with one or more matches the value under varName
\* is the value of the first matched node in document order.
C10_SingleTakesFirstMatch ==
    \A fr \in CallFrames : \A k \in 1..Len(fr.fields) :
        LET f == fr.fields[k]
            doc == load(fr.html)
            ms == Matches(doc, fr.base, f.selector)
        IN (/\ f.selector # ""
            /\ ~f.multi
            /\ ms # <<>>
            /\ WellFormed(f)
            /\ LastWriter(fr.fields, k, doc, fr.base)) =>
              /\ f.varName \in DOMAIN fr.m
              /\ fr.m[f.varName] = NodeValue(f, doc, ms[1])

\* a non-multi rule with several matches whose values differ
C10_Witness ==
    \E fr \in CallFrames : \E k \in 1..Len(fr.fields) :
        LET f == fr.fields[k]
            ms == Matches(load(fr.html), fr.base, f.selector)
        IN /\ f.selector # "" /\ ~f.multi /\ WellFormed(f)
           /\ LastWriter(fr.fields, k, load(fr.html), fr.base)
           /\ Len(ms) >= 2
           /\ \A i \in 2..Len(ms) :
                 NodeValue(f, load(fr.html), ms[i]) # NodeValue(f, load(fr.html), ms[1])

\* C11: for an attr rule a matched node without the named attribute gives the
\* empty string and no error; under multi it gives '' at its own position, the
\* sequence keeping one entry per matched node.
Lacks(f, doc, n) == f.valueBy.name \notin DOMAIN doc.attrs[n]

C11_MissingAttributeIsEmpty ==
    \A fr \in CallFrames : \A k \in 1..Len(fr.fields) :
        LET f == fr.fields[k]
            doc == load(fr.html)
            ms == Matches(doc, fr.base, f.selector)
        IN (/\ f.selector # ""
            /\ f.valueType = "attr"
            /\ f.valueBy.kind = "str"
            /\ LastWriter(fr.fields, k, doc, fr.base)) =>
              IF f.multi
              THEN /\ f.varName \in DOMAIN fr.m
                   /\ fr.m[f.varName].t = "seq"
                   /\ Len(fr.m[f.varName].v) = Len(ms)
                   /\ \A i \in 1..Len(ms) :
                         Lacks(f, doc, ms[i]) => fr.m[f.varName].v[i] = Str(<<>>)
              ELSE (ms # <<>> /\ Lacks(f, doc, ms[1])) =>
                         /\ f.varName \in DOMAIN fr.m
                         /\ fr.m[f.varName] = Str(<<>>)

\* a multi attr rule whose second matched node lacks the attribute that the
\* first and the third carry
C11_Witness ==
    \E fr \in CallFrames : \E k \in 1..Len(fr.fields) :
        LET f == fr.fields[k]
            doc == load(fr.html)
            ms == Matches(doc, fr.base, f.selector)
        IN /\ f.multi /\ f.valueType = "attr" /\ f.valueBy.kind = "str"
           /\ LastWriter(fr.fields, k, doc, fr.base)
           /\ Len(ms) = 3
           /\ ~Lacks(f, doc, ms[1]) /\ Lacks(f, doc, ms[2]) /\ ~Lacks(f, doc, ms[3])

\* C12: formatText returns the text without its leading and trailing
\* whitespace, with every maximal whitespace run that holds a line break
\* replaced by one space and every other character kept.
Max(S) == CHOOSE x \in S : \A y \in S : x >= y

Inner(s) ==
    LET black == {i \in 1..Len(s) : s[i] \notin WhiteSpace}
    IN IF black = {} THEN <<>> ELSE SubSeq(s, Min(black), Max(black))

RunLo(s, i) == Min({j \in 1..i : \A k \in j..i : s[k] \in WhiteSpace})
RunHi(s, i) == Max({j \in i..Len(s) : \A k \in i..j : s[k] \in WhiteSpace})

Piece(s, i) ==
    IF s[i] \notin WhiteSpace THEN <<s[i]>>
    ELSE IF \E k \in RunLo(s, i)..RunHi(s, i) : s[k] = "\n"
         THEN IF i = RunLo(s, i) THEN <<" ">> ELSE <<>>
    ELSE <<s[i]>>

RECURSIVE Pieces(_, _)
Pieces(s, i) == IF i > Len(s) THEN <<>> ELSE Piece(s, i) \o Pieces(s, i + 1)

Normalised(s) == Pieces(Inner(s), 1)

CallText == TextOfMarkup[lastCall.html]

C12_FormatTextNormalises ==
    lastCall.made =>
        /\ lastCall.out.ok
        /\ DOMAIN lastCall.out.val = {"a"}
        /\ lastCall.out.val["a"] =
              IF lastCall.fields[1].multi
              THEN Arr(<<Str(Normalised(CallText))>>)
              ELSE Str(Normalised(CallText))

\* "  H\n   W  " has been extracted as "H W"
C12_Witness ==
    /\ lastCall.made
    /\ CallText = ExampleText
    /\ ~lastCall.fields[1].multi
    /\ lastCall.out.val["a"] = Str(<<"H", " ", "W">>)

\* C13 as stated: a rule whose valueBy does not fit its valueType ('object'
\* without a rule array, 'text' or 'attr' with a rule array) raises an error
\* when it is evaluated on a matched node, instead of producing a value.
Mismatch(f) ==
    \/ f.valueType = "object" /\ f.valueBy.kind # "rules"
    \/ f.valueType \in {"text", "attr"} /\ f.valueBy.kind = "rules"

C13_MismatchRaises ==
    lastCall.made =>
        \A k \in 1..Len(lastCall.fields) :
            (/\ Mismatch(lastCall.fields[k])
             /\ lastCall.fields[k].selector # ""
             /\ Matches(load(lastCall.html), Root, lastCall.fields[k].selector) # <<>>) =>
                ~lastCall.out.ok

\* an item of json source without a value at dataPropertyName, whose rules parse
MissingJson(item) ==
    /\ item.sourceType = "json"
    /\ item.value.kind = "undefined"
    /\ item.rules.kind # "unparsable"

\* the output records of the item of index i, in output order
RECURSIVE RecordsFrom(_, _)
RecordsFrom(k, i) ==
    IF k > Len(returnData) THEN <<>>
    ELSE (IF returnData[k].pairedItem.item = i THEN <<returnData[k]>> ELSE <<>>)
         \o RecordsFrom(k + 1, i)

RecordsOf(i) == RecordsFrom(1, i)

NoPropertyPlaceholder(i) ==
    Record(Map([error |-> Str(<<"No property named \"", dataPropertyName, "\" exists!">>)]), i)

OwnRecords(i) ==
    [j \in 1..Len(Strings(items[i])) |-> Record(Map(Extracted(items[i], j).val), i - 1)]

\* C14 as stated: an item of json source without a value at dataPropertyName
\* raises the 'No property named ... exists!' error for itself only: execute
\* does not stop at it, and it returns the records of the other items.
C14_MissingFatalToRecordOnly ==
    \A i \in 1..Len(items) :
        MissingJson(items[i]) =>
            /\ idx = i - 1 => pc # "thrown"
            /\ (\A j \in 1..Len(items) : j # i => ~Fails(items[j])) => pc # "thrown"

\* C14 amended: in continue-on-fail mode the item gives the placeholder
\* carrying the 'No property named "data" exists!' message as its only record,
\* execute goes on with the next item and returns the records of every other
\* item that does not fail; when continueOnFail is false the loop never
\* goes past the item and execute does not return.
C14_MissingFatalToRecordInContinueMode ==
    \A i \in 1..Len(items) :
        MissingJson(items[i]) =>
            IF continueOnFail
            THEN /\ pc # "thrown"
                 /\ idx >= i => RecordsOf(i - 1) = <<NoPropertyPlaceholder(i - 1)>>
                 /\ idx < i => RecordsOf(i - 1) = <<>>
                 /\ pc = "done" =>
                       /\ outcome = Returned(<<returnData>>)
                       /\ \A j \in 1..Len(items) :
                             ~Fails(items[j]) => RecordsOf(j - 1) = OwnRecords(j)
            ELSE /\ idx < i
                 /\ pc # "done"
                 /\ (pc = "thrown" /\ idx = i - 1) =>
                       outcome.err.message = <<"No property named \"", dataPropertyName, "\" exists!">>

\* a returned batch where records follow the placeholder of a missing property
C14_Witness ==
    /\ continueOnFail
    /\ pc = "done"
    /\ \E i \in 1..Len(items) : \E j \in 1..Len(items) :
          /\ i < j
          /\ MissingJson(items[i])
          /\ ~Fails(items[j])
          /\ RecordsOf(j - 1) # <<>>
          /\ Last(returnData) = Last(OwnRecords(j))

\* a value of one of the four shapes: a string, a sequence of strings, a
\* mapping of such values, a sequence of such mappings
RECURSIVE ShapeOk(_)
RECURSIVE MappingOk(_)
ShapeOk(x) ==
    \/ x.t = "str"
    \/ x.t = "map" /\ MappingOk(x.v)
    \/ /\ x.t = "seq"
       /\ \/ \A i \in 1..Len(x.v) : x.v[i].t = "str"
          \/ \A i \in 1..Len(x.v) : (x.v[i].t = "map" /\ MappingOk(x.v[i].v))

MappingOk(m) == \A k \in DOMAIN m : ShapeOk(m[k])

\* C15 as stated: in every mapping returned by resolveSelectFields, at every
\* depth, each value is a string, a sequence of strings, a mapping or a
\* sequence of mappings, and nothing else.
C15_ValuesHaveFourShapes ==
    (lastCall.made /\ lastCall.out.ok) => MappingOk(lastCall.out.val)

\* the value rule f produces over the matches ms
RuleValue(f, doc, ms) ==
    IF f.multi THEN Arr([i \in 1..Len(ms) |-> NodeValue(f, doc, ms[i])])
    ELSE NodeValue(f, doc, ms[1])

\* C16: when sibling rules of one rule list share a varName and each produces
\* a value, the returned mapping binds the varName to the value of the last of
\* them in list order and to nothing else.
C16_LastWriteWins ==
    \A fr \in CallFrames : \A k \in 1..Len(fr.fields) :
        LET f == fr.fields[k]
            doc == load(fr.html)
        IN (/\ WellFormed(f)
            /\ Writes(f, doc, fr.base)
            /\ LastWriter(fr.fields, k, doc, fr.base)
            /\ \E j \in 1..(k - 1) : /\ fr.fields[j].varName = f.varName
                                     /\ Writes(fr.fields[j], doc, fr.base)) =>
              /\ f.varName \in DOMAIN fr.m
              /\ fr.m[f.varName] = RuleValue(f, doc, Matches(doc, fr.base, f.selector))

\* an earlier rule of the same name produced a string, the last one a
\* sequence, and the mapping holds the sequence
C16_Witness ==
    \E fr \in CallFrames : \E k \in 1..Len(fr.fields) : \E j \in 1..(k - 1) :
        LET doc == load(fr.html)
        IN /\ fr.fields[j].varName = fr.fields[k].varName
           /\ Writes(fr.fields[j], doc, fr.base)
           /\ Writes(fr.fields[k], doc, fr.base)
           /\ LastWriter(fr.fields, k, doc, fr.base)
           /\ ~fr.fields[j].multi /\ fr.fields[k].multi
           /\ fr.m[fr.fields[k].varName].t = "seq"
           /\ Len(fr.m[fr.fields[k].varName].v) >= 2

\* C17: a rule whose selector is empty or absent is a no-op at every depth,
\* whatever its valueType, valueBy and multi: it writes no key (its varName is
\* absent unless a sibling writes it), it raises nothing, and the rules after
\* it are evaluated, the call having the outcome of the call without the rule.
C17_EmptySelectorIsNoOp ==
    /\ \A fr \in CallFrames : \A k \in 1..Len(fr.fields) :
          fr.fields[k].selector = "" =>
            /\ OnlyWriter(fr.fields, k, load(fr.html), fr.base) =>
                  fr.fields[k].varName \notin DOMAIN fr.m
            /\ resolveSelectFields(ByRules(Remove(fr.fields, k)), load(fr.html), fr.base)
                  = Ok(fr.m)
    /\ lastCall.made =>
          \A k \in 1..Len(lastCall.fields) :
              lastCall.fields[k].selector = "" =>
                  resolveSelectFields(ByRules(Remove(lastCall.fields, k)),
                                      load(lastCall.html), Root) = lastCall.out

\* a nested mapping whose list starts with a multi rule without selector and
\* without a known value computation, and holds the key of a later rule
C17_Witness ==
    \E fr \in CallFrames : \E k \in 1..Len(fr.fields) : \E j \in 1..Len(fr.fields) :
        /\ fr.base # Root
        /\ fr.fields[k].selector = ""
        /\ fr.fields[k].multi
        /\ ~WellFormed(fr.fields[k])
        /\ k < j
        /\ fr.fields[j].varName \in DOMAIN fr.m
        /\ fr.fields[k].varName \notin DOMAIN fr.m

Jsons(records) == [k \in 1..Len(records) |-> records[k].json]

\* the batch is an item whose rules payload is one rule object and an item
\* with the same source whose payload is the one-element array of that rule
IsPair(o, a) ==
    /\ Len(items) = 2
    /\ {o, a} = {1, 2}
    /\ items[o].rules.kind = "object"
    /\ items[a].rules.kind = "array"
    /\ items[a].rules.array = <<items[o].rules.object>>
    /\ items[a].value = items[o].value
    /\ items[a].sourceType = items[o].sourceType

\* C18: a rules payload that is a single rule object gives, for every
\* document, the output of the payload that is the one-element array of that
\* object: the same records for every HTML string, or the same failure.
C18_ObjectAsOneElementArray ==
    \A o \in 1..2 : \A a \in 1..2 :
        IsPair(o, a) =>
            /\ idx = 2 => Jsons(RecordsOf(o - 1)) = Jsons(RecordsOf(a - 1))
            /\ pc = "thrown" =>
                  /\ idx = 0
                  /\ Fails(items[a])
                  /\ outcome = Thrown(ItemError(items[a]))

\* both payloads gave two different non-empty records for two documents
C18_Witness ==
    /\ pc = "done"
    /\ \E o \in 1..2 : IsPair(o, 3 - o)
    /\ Len(returnData) = 4
    /\ returnData[1].json # Map(EmptyMap)
    /\ returnData[1].json # returnData[2].json
    /\ returnData[3].json = returnData[1].json
    /\ returnData[4].json = returnData[2].json

\* the records the item gives when it is processed alone, whatever the batch
OwnJsons(item) == [k \in 1..Len(Strings(item)) |-> Map(Extracted(item, k).val)]

InvalidRules(fields) == {r \in AllRules(fields) : r.valueType \notin ValueTypes}

\* C20: rules are not validated when the payload is parsed, and a rule with
\* an unknown valueType raises only when the walk comes to its value
\* computation.  A call whose rule tree holds such rules, none of them reached
\* (empty selector, or non-multi without a match, or below an object rule
\* without a matched node), raises nothing and gives its normal record; and
\* no item fails before its first call except for an unparsable payload or a
\* missing source.
C20_UnreachedInvalidRuleIsSilent ==
    /\ (/\ lastCall.made
        /\ InvalidRules(lastCall.fields) # {}
        /\ \A r \in AllRules(lastCall.fields) : r.valueType \in ValueTypes => WellFormed(r)
        /\ CallReached = <<>>) =>
          /\ lastCall.out.ok
          /\ pc # "thrown"
          /\ returnData # <<>>
          /\ Last(returnData).json = Map(lastCall.out.val)
    /\ (pc = "html" /\ hpos = 1) => rules = ParseRules(items[idx + 1].rules).val
    /\ (pc = "thrown" /\ ~lastCall.made) =>
          \/ items[idx + 1].rules.kind = "unparsable"
          \/ items[idx + 1].value.kind = "undefined"

\* one call that met an invalid rule without selector, an unmatched non-multi
\* one and one below an object rule without a matched node, and returned the
\* values of the other rules
C20_Witness ==
    /\ lastCall.made
    /\ lastCall.out.ok
    /\ CallReached = <<>>
    /\ \E r \in TopRules(lastCall.fields) :
          r.valueType \notin ValueTypes /\ r.selector = ""
    /\ \E r \in TopRules(lastCall.fields) :
          r.valueType \notin ValueTypes /\ Unmatched(r, load(lastCall.html), Root)
    /\ \E r \in TopRules(lastCall.fields) :
          /\ r.valueType = "object"
          /\ InvalidRules(r.valueBy.rules) # {}
          /\ \A q \in InvalidRules(r.valueBy.rules) : q.selector # "" /\ q.multi
          /\ Matches(load(lastCall.html), Root, r.selector) = <<>>
    /\ \E r \in TopRules(lastCall.fields) :
          /\ r.varName \in DOMAIN lastCall.out.val
          /\ lastCall.out.val[r.varName].t = "seq"
          /\ lastCall.out.val[r.varName].v # <<>>

\* C21 as stated: an item whose rules parameter is not the text of a JSON
\* array or object (unparsable text, null, a number, a string) is rejected
\* before any extraction: the loop over its HTML strings is never entered and
\* resolveSelectFields is never called for it.
C21_NonRulePayloadRejected ==
    \A i \in 1..Len(items) :
        (items[i].rules.kind \in {"unparsable", "null", "scalar"} /\ idx = i - 1) =>
            /\ pc # "html"
            /\ ~lastCall.made

\* the item fails at one of its HTML strings, not before
FailsAtString(item) == ~FailsEarly(item) /\ FailingStrings(item) # {}

\* the normal records of the strings before the first failing one, then the
\* placeholder of that failure
TruncatedRecords(i) ==
    LET k == Min(FailingStrings(items[i]))
    IN [j \in 1..(k - 1) |-> Record(Map(Extracted(items[i], j).val), i - 1)]
       \o <<Record(Map([error |-> Str(Extracted(items[i], k).err.message)]), i - 1)>>

\* C22: in continue-on-fail mode, when the k-th HTML string of an item fails,
\* the item's output is the k-1 normal records of the strings before it and
\* then exactly one { error } placeholder: the records pushed before the
\* failure stay, the strings after the k-th give no record, and the loop goes
\* on with the next item.
C22_FailingStringTruncatesItem ==
    continueOnFail =>
        \A i \in 1..Len(items) :
            FailsAtString(items[i]) =>
                /\ pc # "thrown"
                /\ (idx = i - 1 /\ pc = "html") =>
                      /\ hpos <= Min(FailingStrings(items[i]))
                      /\ RecordsOf(i - 1) = SubSeq(TruncatedRecords(i), 1, hpos - 1)
                /\ idx >= i =>
                      /\ RecordsOf(i - 1) = TruncatedRecords(i)
                      /\ Len(RecordsOf(i - 1)) = Min(FailingStrings(items[i]))
                /\ (i < Len(items) /\ idx > i /\ ~Fails(items[i + 1])) =>
                      RecordsOf(i) = OwnRecords(i + 1)
                /\ pc = "done" => outcome = Returned(<<returnData>>)

\* a returned batch where one item failed at its second string, keeping the
\* record of the first, and a later item failed at its first string, the
\* string after it giving no record
C22_Witness ==
    /\ continueOnFail
    /\ pc = "done"
    /\ \E i \in 1..Len(items) : \E j \in 1..Len(items) :
          /\ i < j
          /\ FailsAtString(items[i])
          /\ Min(FailingStrings(items[i])) = 2
          /\ Len(RecordsOf(i - 1)) = 2
          /\ FailsAtString(items[j])
          /\ Min(FailingStrings(items[j])) = 1
          /\ Len(Strings(items[j])) = 2
          /\ FailingStrings(items[j]) = {1}
          /\ Len(RecordsOf(j - 1)) = 1

\* a multi rule with a selector that is the last to write its name
BindsSequence(fields, k, doc, base) ==
    /\ fields[k].selector # ""
    /\ fields[k].multi
    /\ LastWriter(fields, k, doc, base)

\* every nested rule of the object rule f finds nothing below node n
FindsNothing(f, doc, n) ==
    /\ f.valueType = "object"
    /\ f.valueBy.kind = "rules"
    /\ \A g \in TopRules(f.valueBy.rules) :
          g.selector = "" \/ Matches(doc, n, g.selector) = <<>>

\* the mapping of a node whose nested rules find nothing: the nested multi
\* rules bound to empty sequences, no other key
EmptySequences(rs) ==
    [name \in {g.varName : g \in {r \in TopRules(rs) : r.multi /\ r.selector # ""}}
        |-> Arr(<<>>)]

\* the sequence of a multi rule has one entry per matched node, and sibling
\* multi rules with the same selector are aligned node by node
LengthsAgree(fr) ==
    \A k \in 1..Len(fr.fields) :
        LET f == fr.fields[k]
            doc == load(fr.html)
            ms == Matches(doc, fr.base, f.selector)
        IN BindsSequence(fr.fields, k, doc, fr.base) =>
              /\ f.varName \in DOMAIN fr.m
              /\ fr.m[f.varName].t = "seq"
              /\ Len(fr.m[f.varName].v) = Len(ms)
              /\ \A i \in 1..Len(ms) :
                    (f.valueType = "attr" /\ f.valueBy.kind = "str" /\ Lacks(f, doc, ms[i])) =>
                        fr.m[f.varName].v[i] = Str(<<>>)
              /\ \A j \in 1..Len(fr.fields) :
                    (BindsSequence(fr.fields, j, doc, fr.base)
                        /\ fr.fields[j].selector = f.selector) =>
                      /\ Len(fr.m[fr.fields[j].varName].v) = Len(fr.m[f.varName].v)
                      /\ \A i \in 1..Len(ms) :
                            (WellFormed(f) /\ WellFormed(fr.fields[j])) =>
                              /\ fr.m[f.varName].v[i] = NodeValue(f, doc, ms[i])
                              /\ fr.m[fr.fields[j].varName].v[i] =
                                    NodeValue(fr.fields[j], doc, ms[i])

\* C23 as stated: for a multi rule that does not raise, the sequence has one
\* entry per matched node for every valueType, a node without the attribute
\* giving '' and a node whose nested rules all find nothing giving an empty
\* mapping; sibling multi rules with the same selector give sequences of
\* equal length whose i-th entries come from the same node.
C23_EmptyMappingPerBareNode ==
    \A fr \in CallFrames :
        /\ LengthsAgree(fr)
        /\ \A k \in 1..Len(fr.fields) :
              LET f == fr.fields[k]
                  doc == load(fr.html)
                  ms == Matches(doc, fr.base, f.selector)
              IN BindsSequence(fr.fields, k, doc, fr.base) =>
                    \A i \in 1..Len(ms) :
                        FindsNothing(f, doc, ms[i]) => fr.m[f.varName].v[i] = Map(EmptyMap)

\* C23 amended: as stated, except that a node whose nested rules all find
\* nothing gives a mapping that holds an empty sequence for each nested multi
\* rule with a selector and no other key (the empty mapping when there is no
\* such nested rule).
C23_OneEntryPerMatchedNode ==
    \A fr \in CallFrames :
        /\ LengthsAgree(fr)
        /\ \A k \in 1..Len(fr.fields) :
              LET f == fr.fields[k]
                  doc == load(fr.html)
                  ms == Matches(doc, fr.base, f.selector)
              IN BindsSequence(fr.fields, k, doc, fr.base) =>
                    \A i \in 1..Len(ms) :
                        FindsNothing(f, doc, ms[i]) =>
                            /\ fr.m[f.varName].v[i].t = "map"
                            /\ DOMAIN fr.m[f.varName].v[i].v
                                  = DOMAIN EmptySequences(f.valueBy.rules)
                            /\ \A name \in DOMAIN fr.m[f.varName].v[i].v :
                                  fr.m[f.varName].v[i].v[name] = Arr(<<>>)

\* one mapping with a text, an attr and an object multi rule over the same
\* three nodes, one node lacking the attribute, the object entries empty
C23_Witness ==
    \E fr \in CallFrames : \E a \in 1..Len(fr.fields) : \E b \in 1..Len(fr.fields) :
        \E c \in 1..Len(fr.fields) :
            LET doc == load(fr.html)
                ms == Matches(doc, fr.base, fr.fields[a].selector)
            IN /\ BindsSequence(fr.fields, a, doc, fr.base)
               /\ BindsSequence(fr.fields, b, doc, fr.base)
               /\ BindsSequence(fr.fields, c, doc, fr.base)
               /\ fr.fields[a].valueType = "text"
               /\ fr.fields[b].valueType = "attr"
               /\ fr.fields[c].valueType = "object"
               /\ fr.fields[b].selector = fr.fields[a].selector
               /\ fr.fields[c].selector = fr.fields[a].selector
               /\ Len(ms) = 3
               /\ \E i \in 1..3 : Lacks(fr.fields[b], doc, ms[i])
               /\ \E i \in 1..3 : ~Lacks(fr.fields[b], doc, ms[i])
               /\ Len(fr.m[fr.fields[c].varName].v) = 3
               /\ fr.m[fr.fields[c].varName].v[1] = Map(EmptyMap)

\* the json of every record the item can give: the extraction of one of its
\* strings, or the message of its first error
JsonsOfItem(item) ==
    (IF FailsEarly(item) THEN {}
     ELSE {Map(Extracted(item, j).val) :
              j \in {h \in 1..Len(Strings(item)) : Extracted(item, h).ok}})
    \cup (IF Fails(item) THEN {Map([error |-> Str(ItemError(item).message)])} ELSE {})

\* C24: every record of the output, normal or { error } placeholder, carries
\* in pairedItem.item the index of the input item it was produced from (an
\* item the loop has come to, whose strings or whose error give that json),
\* the pairedItem.item values never decrease along the output, and the list
\* execute returns is that output.
C24_PairedItemIsOwnIndex ==
    /\ \A k \in 1..Len(returnData) :
          LET p == returnData[k].pairedItem.item
          IN /\ p \in 0..(Len(items) - 1)
             /\ p <= idx
             /\ p = idx => pc \in {"html", "thrown"}
             /\ returnData[k].json \in JsonsOfItem(items[p + 1])
             /\ k > 1 => returnData[k - 1].pairedItem.item <= p
    /\ \A i \in 1..Len(items) :
          (idx >= i /\ (Strings(items[i]) # <<>> \/ Fails(items[i]))) => RecordsOf(i - 1) # <<>>
    /\ pc = "done" => outcome = Returned(<<returnData>>)

\* a returned list with two normal records of one item and the placeholder
\* of a later one
C24_Witness ==
    /\ pc = "done"
    /\ \E k \in 1..Len(outcome.data[1]) :
          /\ k > 2
          /\ "error" \in DOMAIN outcome.data[1][k].json.v
          /\ outcome.data[1][k].pairedItem.item = 1
          /\ "error" \notin DOMAIN outcome.data[1][1].json.v
          /\ outcome.data[1][1].pairedItem.item = 0
          /\ outcome.data[1][2].pairedItem.item = 0
          /\ outcome.data[1][1].json # outcome.data[1][2].json

\* the varNames of the rules of a list that have a selector
WritingNames(fields) == {r.varName : r \in {q \in TopRules(fields) : q.selector # ""}}

\* the keys, anywhere in a value, of the attribute objects of elements
RECURSIVE AttributeKeys(_)
AttributeKeys(x) ==
    CASE x.t = "attrs" -> DOMAIN x.v
      [] x.t = "map" -> UNION {AttributeKeys(x.v[k]) : k \in DOMAIN x.v}
      [] x.t = "seq" -> UNION {AttributeKeys(x.v[i]) : i \in 1..Len(x.v)}
      [] OTHER -> {}

\* C25 as stated: in every mapping returned by resolveSelectFields, at every
\* depth, the keys are varNames of the rules of its rule list that have a
\* selector, and no key of the output comes from the document, be it a tag
\* name, an attribute or a text.
C25_KeysFollowRuleTree ==
    /\ \A fr \in CallFrames : DOMAIN fr.m \subseteq WritingNames(fr.fields)
    /\ (lastCall.made /\ lastCall.out.ok) => AttributeKeys(Map(lastCall.out.val)) = {}

\* the text value of the call on one paragraph
CallValue ==
    IF lastCall.fields[1].multi THEN lastCall.out.val["a"].v[1].v ELSE lastCall.out.val["a"].v

\* C26: for every text, the extracted 'text' value, which is formatText of
\* the text, holds no line break, neither starts nor ends with a white space
\* character, and is left unchanged by formatText: formatText(formatText(t))
\* = formatText(t).
C26_FormatTextIdempotent ==
    lastCall.made =>
        /\ lastCall.out.ok
        /\ \A i \in 1..Len(CallValue) : CallValue[i] # "\n"
        /\ CallValue # <<>> =>
              /\ CallValue[1] \notin WhiteSpace
              /\ CallValue[Len(CallValue)] \notin WhiteSpace
        /\ formatText(CallValue) = CallValue

\* the text with two line breaks gave a value with two single spaces
C26_Witness ==
    /\ lastCall.made
    /\ CallText = TwoBreaksText
    /\ CallValue = <<"x", " ", "x", " ", "x">>

====
